---- MODULE Spec2Model ----
(***************************************************************************)
(* Model of the specular-highlight core of Gacha-Website-Test:             *)
(*   - the light-direction controller   (src/three/interaction.ts)         *)
(*   - the specular light state          (src/three/lighting.ts)           *)
(*   - the specular-only fragment shader (src/three/material.ts)           *)
(*                                                                         *)
(* Real numbers are fixed-point integers with One standing for 1.0, so a   *)
(* vector <<0, 0, One>> is (0,0,1).  Vectors are sequences of length 3     *)
(* (Vector3) or 2 (Vector2).                                               *)
(***************************************************************************)
EXTENDS Integers, Sequences, FiniteSets, TLC

VARIABLES
    \* ---- interaction controller (createInteraction closure) ----
    direction,                \* current direction (Vector3)
    targetDirection,          \* desired direction (Vector3)
    pointerXY,                \* last normalized pointer position (Vector2)
    orientation,              \* [beta, gamma, hasSample]
    disposed,
    deviceOrientationEnabled,
    smoothing,                \* clamp(options.smoothing ?? 0, 0, 1)
    maxTiltDeg,               \* options.maxTiltDeg ?? 35
    listeners,                \* event types the controller is subscribed to
    hasDeviceOrientationEvent, \* host declares the DeviceOrientationEvent global
    needsPermission,          \* host has DeviceOrientationEvent.requestPermission
    pending,                  \* setDeviceOrientationEnabled(true) calls at their await
    frames,                   \* update() calls that interpolated (0 < smoothing < 1)
    last,                     \* the operation that ran last and how it ended
    \* ---- specular light (SpecularLight object) ----
    light,                    \* [directionWorld, intensity, maxIntensity]
    attempted,                \* the value of the last intensity write
    vectors,                  \* the value of each THREE.Vector3 object in play
    uniforms,                 \* [uLightDirView, uLightIntensity] of the material
    returned,                 \* the object getLightDirView returned last
    lightOp,                  \* the light or material function that ran last
    \* ---- fragment shader run ----
    frag,                     \* the inputs of one fragment
    fragOut,                  \* what main() produced for it
    \* ---- scene module (scene.ts, module-level state and the host's queues) ----
    renderer,                 \* the session whose WebGLRenderer it holds, 0: undefined
    scene,                    \* the session whose Scene it holds, 0: undefined
    camera,                   \* the session whose camera it holds, 0: undefined
    rafId,                    \* the id of the latest frame request, 0: undefined
    sessions,                 \* initThreeScene calls made so far
    requests,                 \* requestAnimationFrame calls made so far
    scheduled,                \* frame callbacks waiting: [id, chain]
    loads,                    \* per session, how its loader.load stands
    meshes,                   \* the scenes the mesh was added to
    consoleErrors,            \* the sessions whose load failure was logged
    cleaned,                  \* the sessions whose cleanup hook has been called
    sceneLast                 \* the scene step that ran last and the calls it made

ctrlVars == <<direction, targetDirection, pointerXY, orientation, disposed,
              deviceOrientationEnabled, smoothing, maxTiltDeg, listeners,
              hasDeviceOrientationEvent, needsPermission, pending, frames, last>>
lightVars == <<light, attempted, vectors, uniforms, returned, lightOp>>
shaderVars == <<frag, fragOut>>
sceneVars == <<renderer, scene, camera, rafId, sessions, requests, scheduled,
               loads, meshes, consoleErrors, cleaned, sceneLast>>
vars == <<ctrlVars, lightVars, shaderVars, sceneVars>>

(***************************************************************************)
(* Fixed-point arithmetic                                                  *)
(***************************************************************************)
One == 10 * 10 * 10

\* Bound on simultaneously pending enable requests.
MaxPending == 2
\* Bound on the interpolating update() calls of one run.
MaxFrames == 2
\* Bound on the initThreeScene calls of one run.
MaxSessions == 2
\* Bound on the requestAnimationFrame calls of one run.
MaxRequests == 5

Abs(a) == IF a < 0 THEN -a ELSE a

\* a / b rounded to the nearest integer (b > 0).
RoundDiv(a, b) == (2 * a + b) \div (2 * b)

\* Fixed-point product.
Mul(a, b) == RoundDiv(a * b, One)

RECURSIVE SqrtSearch(_, _, _)
SqrtSearch(n, lo, hi) ==
    IF lo >= hi THEN lo
    ELSE LET mid == (lo + hi + 1) \div 2
         IN IF mid * mid <= n THEN SqrtSearch(n, mid, hi)
                              ELSE SqrtSearch(n, lo, mid - 1)

\* floor(sqrt(n)) for 0 <= n.
ISqrt(n) == SqrtSearch(n, 0, 40000)

\* const clamp = (v, min, max) => Math.max(min, Math.min(max, v))
MinOf(a, b) == IF a < b THEN a ELSE b
MaxOf(a, b) == IF a > b THEN a ELSE b
clamp(v, lo, hi) == MaxOf(lo, MinOf(hi, v))

Dot(a, b) == a[1] * b[1] + a[2] * b[2] + a[3] * b[3]

\* Vector3.length(), in fixed point.
Length(v) == ISqrt(Dot(v, v))

\* Vector3.normalize(): divideScalar(length() || 1).
Normalize(v) ==
    LET len == Length(v)
    IN IF len = 0 THEN v
       ELSE <<RoundDiv(v[1] * One, len), RoundDiv(v[2] * One, len),
              RoundDiv(v[3] * One, len)>>

\* mat3 * vec3 with the matrix given by its columns.
MatMul(m, v) ==
    <<RoundDiv(m[1][1] * v[1] + m[2][1] * v[2] + m[3][1] * v[3], One),
      RoundDiv(m[1][2] * v[1] + m[2][2] * v[2] + m[3][2] * v[3], One),
      RoundDiv(m[1][3] * v[1] + m[2][3] * v[2] + m[3][3] * v[3], One)>>

\* Vector3.lerp(v, alpha): this += (v - this) * alpha.
Lerp(a, b, alpha) ==
    <<a[1] + Mul(b[1] - a[1], alpha), a[2] + Mul(b[2] - a[2], alpha),
      a[3] + Mul(b[3] - a[3], alpha)>>

(***************************************************************************)
(* Interaction controller                                                  *)
(***************************************************************************)
\* Values of options.smoothing tried (undefined is 0).
SmoothingOptions == {-500, 0, 500, 1000, 2000}
\* Values of options.maxTiltDeg tried.
MaxTiltOptions == {35}
\* Pointer events <<clientX, clientY>>, and the viewport sizes
\* <<innerWidth, innerHeight>> they may arrive in.
PointerEvents == {<<50, 50>>, <<100, 0>>, <<0, 130>>}
Viewports == {<<100, 100>>, <<0, 0>>}
\* Orientation events <<beta, gamma>> in degrees; Null stands for a field whose
\* typeof is not 'number' (no sensor data).
Null == 0 - 1000
OrientationEvents == {<<Null, Null>>, <<10, Null>>, <<35, -70>>, <<-20, 7>>}

\* The pointer mapping of onPointerMove.
PointerCoord(c, size) ==
    LET s == IF size = 0 THEN 1 ELSE size
    IN RoundDiv(c * 2 * One, s) - One
PointerX(cx, w) == clamp(PointerCoord(cx, w), -One, One)
\* The vertical mapping without the inversion of line 68.
PointerY_NotInverted(cy, h) == clamp(PointerCoord(cy, h), -One, One)
PointerY(cy, h) == clamp(-PointerCoord(cy, h), -One, One)

\* maxTilt is kept in thousandths of a degree: Math.max(1e-3, maxTiltDeg).
TiltCoord(deg, tilt) ==
    LET maxTilt == MaxOf(1, tilt * 1000)
    IN clamp(RoundDiv(deg * 1000 * One, maxTilt), -One, One)
computeXYFromOrientation(o, tilt) ==
    <<TiltCoord(o.gamma, tilt), TiltCoord(o.beta, tilt)>>

\* recomputeTarget() reading the orientation sample whatever the mode is.
RecomputedTarget_IgnoresMode(isDisposed, enabled, o, pxy, tilt, old) ==
    IF isDisposed THEN old
    ELSE LET xy == IF o.hasSample
                   THEN computeXYFromOrientation(o, tilt)
                   ELSE pxy
         IN Normalize(<<xy[1], xy[2], One>>)

\* The value recomputeTarget() leaves in targetDirection, given the state it reads.
RecomputedTarget(isDisposed, enabled, o, pxy, tilt, old) ==
    IF isDisposed THEN old
    ELSE LET xy == IF enabled /\ o.hasSample
                   THEN computeXYFromOrientation(o, tilt)
                   ELSE pxy      \* computeXYFromPointer(): pointerXY.clone()
         IN Normalize(<<xy[1], xy[2], One>>)

recomputeTarget(enabled, o, pxy) ==
    targetDirection' =
        RecomputedTarget(disposed, enabled, o, pxy, maxTiltDeg, targetDirection)

\* A setDeviceOrientationEnabled(true) call suspended at its await.  kind tells
\* the caller: the startup block of createInteraction (which catches a
\* rejection) or the application; "catch" is the startup block at its own
\* await once its call has been rejected, the catch block still to run.
\* sawEnabled is a history flag: whether deviceOrientationEnabled has read true
\* since the call was made.
NewCall(kind) == [kind |-> kind, sawEnabled |-> FALSE]

\* The record kept in `last`: the operation, and for a setDeviceOrientationEnabled
\* call its caller, how its promise stands and the call's history flag.
\* answer is the host's answer that settled it.  arg holds the arguments of a
\* pointer event <<clientX, clientY, innerWidth, innerHeight>> or of a
\* setDeviceOrientationEnabled call <<enabled>>.
Ran(op) ==
    [op |-> op, kind |-> "none", outcome |-> "none", answer |-> "none",
     sawEnabled |-> FALSE, arg |-> <<>>]
Settled(op, call, outcome, answer) ==
    [op |-> op, kind |-> call.kind, outcome |-> outcome, answer |-> answer,
     sawEnabled |-> call.sawEnabled, arg |-> <<>>]
Called(enabled, outcome) ==
    [Settled("setEnabled", NewCall("explicit"), outcome, "none")
        EXCEPT !.arg = <<enabled>>]

\* pending without its i-th call; the calls left note the mode they observe.
Others(i, enabledNow) ==
    [j \in 1..(Len(pending) - 1) |->
        LET c == IF j < i THEN pending[j] ELSE pending[j + 1]
        IN [c EXCEPT !.sawEnabled = c.sawEnabled \/ enabledNow]]

ctrlConfig == <<smoothing, maxTiltDeg, hasDeviceOrientationEvent, needsPermission>>

\* State right after createInteraction(options) returns.
CtrlInit ==
    /\ direction = <<0, 0, One>>
    /\ pointerXY = <<0, 0>>
    /\ orientation = [beta |-> 0, gamma |-> 0, hasSample |-> FALSE]
    /\ disposed = FALSE
    /\ deviceOrientationEnabled = FALSE
    /\ \E s \in SmoothingOptions : smoothing = clamp(s, 0, One)
    /\ maxTiltDeg \in MaxTiltOptions
    /\ listeners = {"pointermove", "deviceorientation"}
    /\ hasDeviceOrientationEvent \in BOOLEAN
    /\ needsPermission \in IF hasDeviceOrientationEvent THEN BOOLEAN ELSE {FALSE}
    /\ targetDirection = Normalize(<<0, 0, One>>)
    /\ \E enableDeviceOrientation \in BOOLEAN :
          pending = IF enableDeviceOrientation THEN <<NewCall("startup")>> ELSE <<>>
    /\ frames = 0
    /\ last = Ran("create")

\* The parts of the state a specification leaves alone.
CtrlIdle ==
    /\ direction = <<0, 0, One>>
    /\ targetDirection = <<0, 0, One>>
    /\ pointerXY = <<0, 0>>
    /\ orientation = [beta |-> 0, gamma |-> 0, hasSample |-> FALSE]
    /\ disposed = FALSE
    /\ deviceOrientationEnabled = FALSE
    /\ smoothing = 0
    /\ maxTiltDeg = 35
    /\ listeners = {}
    /\ hasDeviceOrientationEvent = FALSE
    /\ needsPermission = FALSE
    /\ pending = <<>>
    /\ frames = 0
    /\ last = Ran("none")
LightIdle ==
    /\ light = <<>> /\ attempted = <<>>
    /\ vectors = <<>> /\ uniforms = <<>> /\ returned = "none" /\ lightOp = "none"
ShaderIdle == frag = <<>> /\ fragOut = <<>>
SceneIdle ==
    /\ renderer = 0 /\ scene = 0 /\ camera = 0 /\ rafId = 0
    /\ sessions = 0 /\ requests = 0
    /\ scheduled = {} /\ loads = <<>> /\ meshes = {}
    /\ consoleErrors = {} /\ cleaned = {}
    /\ sceneLast = <<>>

Init == CtrlInit /\ LightIdle /\ ShaderIdle /\ SceneIdle

\* The startup block has a rejection to catch.
CatchQueued == \E i \in 1..Len(pending) : pending[i].kind = "catch"

\* A DOM event cannot be dispatched between a call and the continuation of an
\* await that needs no host answer (the continuation is a microtask), nor
\* between the rejection of the startup call and its catch block.
EventsCanRun == ~CatchQueued /\ (needsPermission \/ pending = <<>>)

onPointerMove(cx, cy, w, h) ==
    /\ EventsCanRun
    /\ last' = [Ran("pointermove") EXCEPT !.arg = <<cx, cy, w, h>>]
    /\ IF "pointermove" \in listeners
       THEN /\ pointerXY' = <<PointerX(cx, w), PointerY(cy, h)>>
            /\ IF ~deviceOrientationEnabled
               THEN recomputeTarget(deviceOrientationEnabled, orientation, pointerXY')
               ELSE UNCHANGED targetDirection
       ELSE UNCHANGED <<pointerXY, targetDirection>>
    /\ UNCHANGED <<direction, orientation, disposed, deviceOrientationEnabled,
                   ctrlConfig, listeners, pending, frames>>

onDeviceOrientation(beta, gamma) ==
    /\ EventsCanRun
    /\ last' = Ran("deviceorientation")
    /\ IF /\ "deviceorientation" \in listeners
          /\ deviceOrientationEnabled
          /\ beta # Null /\ gamma # Null
       THEN /\ orientation' = [beta |-> beta, gamma |-> gamma, hasSample |-> TRUE]
            /\ recomputeTarget(deviceOrientationEnabled, orientation', pointerXY)
       ELSE UNCHANGED <<orientation, targetDirection>>
    /\ UNCHANGED <<direction, pointerXY, disposed, deviceOrientationEnabled,
                   ctrlConfig, listeners, pending, frames>>

\* Answers of DeviceOrientationEvent.requestPermission(): the promise resolves
\* to 'granted' or 'denied', or rejects.
HostAnswers == {"granted", "denied", "failed"}
\* "none": the host has no requestPermission and is not asked.
\* "undeclared": the host has no DeviceOrientationEvent global, and reading the
\* identifier throws a ReferenceError.
Answers == HostAnswers \cup {"none", "undeclared"}

requestDeviceOrientationPermissionIfNeeded_NeverThrows(answer) == TRUE

\* requestDeviceOrientationPermissionIfNeeded(): TRUE when it returns, FALSE
\* when it throws.
requestDeviceOrientationPermissionIfNeeded(answer) ==
    IF answer = "undeclared" THEN FALSE
    ELSE IF answer \in HostAnswers THEN answer = "granted"
    ELSE TRUE

\* setDeviceOrientationEnabled(enabled), up to its await or its return.
setDeviceOrientationEnabled(enabled) ==
    /\ IF disposed \/ enabled = deviceOrientationEnabled
       THEN /\ last' = Called(enabled, "resolved")
            /\ UNCHANGED <<deviceOrientationEnabled, targetDirection, pending>>
       ELSE IF enabled
       THEN /\ Len(pending) < MaxPending
            /\ pending' = Append(pending, NewCall("explicit"))
            /\ last' = Called(enabled, "pending")
            /\ UNCHANGED <<deviceOrientationEnabled, targetDirection>>
       ELSE /\ deviceOrientationEnabled' = FALSE
            /\ recomputeTarget(FALSE, orientation, pointerXY)
            /\ last' = Called(enabled, "resolved")
            /\ UNCHANGED pending
    /\ UNCHANGED <<direction, pointerXY, orientation, disposed, ctrlConfig,
                   listeners, frames>>

\* pending with its i-th call, the startup call, rejected and to be caught.
Rejected(i) ==
    [j \in 1..Len(pending) |->
        IF j = i THEN [pending[j] EXCEPT !.kind = "catch"] ELSE pending[j]]

\* The rest of a suspended setDeviceOrientationEnabled(true) once the permission
\* request has settled with `answer`: lines 129-130, or the throw out of line 128.
permissionSettled(i, answer) ==
    /\ i \in 1..Len(pending)
    /\ pending[i].kind # "catch"
    /\ hasDeviceOrientationEvent <=> answer # "undeclared"
    /\ needsPermission <=> answer \in HostAnswers
    /\ IF requestDeviceOrientationPermissionIfNeeded(answer)
       THEN /\ deviceOrientationEnabled' = TRUE
            /\ recomputeTarget(TRUE, orientation, pointerXY)
            /\ last' = Settled("permission", pending[i], "resolved", answer)
            /\ pending' = Others(i, TRUE)
       ELSE /\ last' = Settled("permission", pending[i], "rejected", answer)
            /\ pending' = IF pending[i].kind = "startup"
                          THEN Rejected(i)
                          ELSE Others(i, deviceOrientationEnabled)
            /\ UNCHANGED <<deviceOrientationEnabled, targetDirection>>
    /\ UNCHANGED <<direction, pointerXY, orientation, disposed, ctrlConfig,
                   listeners, frames>>

\* The catch block of the startup call, run when the await of line 171 resumes
\* with the rejection.
startupCatch(i) ==
    /\ i \in 1..Len(pending)
    /\ pending[i].kind = "catch"
    /\ deviceOrientationEnabled' = FALSE
    /\ recomputeTarget(FALSE, orientation, pointerXY)
    /\ last' = [Settled("catch", pending[i], "rejected", "none")
                   EXCEPT !.kind = "startup"]
    /\ pending' = Others(i, FALSE)
    /\ UNCHANGED <<direction, pointerXY, orientation, disposed, ctrlConfig,
                   listeners, frames>>

UpdatedDirection_NoNormalize(dir, target, s) ==
    IF s <= 0 THEN target ELSE Lerp(dir, target, s)

UpdatedDirection_AlwaysLerp(dir, target, s) == Normalize(Lerp(dir, target, s))

\* The value update() leaves in direction.
UpdatedDirection(dir, target, s) ==
    IF s <= 0 THEN target ELSE Normalize(Lerp(dir, target, s))

Interpolating == 0 < smoothing /\ smoothing < One

update ==
    /\ last' = Ran("update")
    /\ IF disposed
       THEN UNCHANGED <<targetDirection, direction, frames>>
       ELSE /\ Interpolating => frames < MaxFrames
            /\ frames' = IF Interpolating THEN frames + 1 ELSE frames
            /\ IF ~deviceOrientationEnabled
               THEN recomputeTarget(deviceOrientationEnabled, orientation, pointerXY)
               ELSE UNCHANGED targetDirection
            /\ direction' = UpdatedDirection(direction, targetDirection', smoothing)
    /\ UNCHANGED <<pointerXY, orientation, disposed, deviceOrientationEnabled,
                   ctrlConfig, listeners, pending>>

\* dispose() without the two removeEventListener calls.
dispose_KeepsListeners ==
    /\ last' = Ran("dispose")
    /\ disposed' = TRUE
    /\ UNCHANGED <<direction, targetDirection, pointerXY, orientation,
                   deviceOrientationEnabled, ctrlConfig, listeners, pending,
                   frames>>

dispose ==
    /\ last' = Ran("dispose")
    /\ disposed' = TRUE
    /\ listeners' = listeners \ {"pointermove", "deviceorientation"}
    /\ UNCHANGED <<direction, targetDirection, pointerXY, orientation,
                   deviceOrientationEnabled, ctrlConfig, pending, frames>>

Next == \/ \E ev \in PointerEvents, vp \in Viewports :
              onPointerMove(ev[1], ev[2], vp[1], vp[2])
              /\ UNCHANGED <<lightVars, shaderVars, sceneVars>>
        \/ \E ev \in OrientationEvents :
              onDeviceOrientation(ev[1], ev[2]) /\ UNCHANGED <<lightVars, shaderVars, sceneVars>>
        \/ \E e \in BOOLEAN :
              setDeviceOrientationEnabled(e) /\ UNCHANGED <<lightVars, shaderVars, sceneVars>>
        \/ \E i \in 1..MaxPending, a \in Answers :
              permissionSettled(i, a) /\ UNCHANGED <<lightVars, shaderVars, sceneVars>>
        \/ \E i \in 1..MaxPending :
              startupCatch(i) /\ UNCHANGED <<lightVars, shaderVars, sceneVars>>
        \/ update /\ UNCHANGED <<lightVars, shaderVars, sceneVars>>
        \/ dispose /\ UNCHANGED <<lightVars, shaderVars, sceneVars>>

Spec == Init /\ [][Next]_vars

(***************************************************************************)
(* Specular light (lighting.ts)                                            *)
(*                                                                         *)
(* A JavaScript number is a record: a finite fixed-point value, NaN, or    *)
(* one of the infinities.  Undefined is an option that was not given.      *)
(***************************************************************************)
Fin(v) == [k |-> "fin", v |-> v]
NaN == [k |-> "nan", v |-> 0]
PosInf == [k |-> "pinf", v |-> 0]
NegInf == [k |-> "ninf", v |-> 0]
Undefined == [k |-> "undefined", v |-> 0]

Rank(x) == CASE x.k = "ninf" -> 0 [] x.k = "pinf" -> 2 [] OTHER -> 1

\* a < b and a <= b on numbers; false when either is NaN.
Lt(x, y) ==
    /\ x.k # "nan" /\ y.k # "nan"
    /\ \/ Rank(x) < Rank(y)
       \/ x.k = "fin" /\ y.k = "fin" /\ x.v < y.v
Leq(x, y) == x.k # "nan" /\ y.k # "nan" /\ ~Lt(y, x)

\* Math.max / Math.min: NaN when either argument is NaN.
MathMax(x, y) == IF x.k = "nan" \/ y.k = "nan" THEN NaN ELSE IF Lt(x, y) THEN y ELSE x
MathMin(x, y) == IF x.k = "nan" \/ y.k = "nan" THEN NaN ELSE IF Lt(y, x) THEN y ELSE x

\* THREE.MathUtils.clamp(value, min, max) = Math.max(min, Math.min(max, value)).
MathUtilsClamp(value, lo, hi) == MathMax(lo, MathMin(hi, value))

NumberIsFinite(x) == x.k = "fin"

\* a ?? b
Coalesce(x, d) == IF x.k = "undefined" THEN d ELSE x

DEFAULT_MAX_INTENSITY == 350

\* The intensity setSpecularLightIntensity(light, intensity) stores.
ClampedIntensity(maxIntensity, intensity) ==
    LET i == IF NumberIsFinite(intensity) THEN intensity ELSE Fin(0)
    IN MathUtilsClamp(i, Fin(0), maxIntensity)

\* new THREE.Vector3(0.5, 0.5, 1.0).normalize()
DEFAULT_DIRECTION_WORLD == Normalize(<<One \div 2, One \div 2, One>>)

\* The light createSpecularLight(opts) returns; NoVector is an absent
\* opts.directionWorld.
NoVector == <<>>
createSpecularLight(optDirection, optIntensity, optMaxIntensity) ==
    LET maxIntensity == MathMax(Fin(0), Coalesce(optMaxIntensity, Fin(DEFAULT_MAX_INTENSITY)))
    IN [directionWorld |->
            Normalize(IF optDirection = NoVector THEN DEFAULT_DIRECTION_WORLD
                                                 ELSE optDirection),
        intensity |-> ClampedIntensity(maxIntensity, Coalesce(optIntensity, Fin(0))),
        maxIntensity |-> maxIntensity]

\* The numbers tried as options and as intensity writes.
Numbers == {Fin(-200), Fin(0), Fin(100), Fin(350), Fin(900), NaN, PosInf, NegInf}

\* The directions tried.
LightDirections == {<<0, 0, One>>, <<One, One, One>>, <<-One, 0, One \div 2>>}

\* A THREE.Vector3 is an object: `vectors` gives the value each one holds, and
\* a field that refers to a vector holds the object's name.  "lightDir" is the
\* clone createSpecularLight made, "uniformDir" the clone
\* createSpecularOnlyMaterial made for uLightDirView, "source" a vector of the
\* caller (the controller's direction), "dirView" the vector the latest
\* getLightDirView call created.
Objects == {"lightDir", "uniformDir", "source", "dirView"}

\* camera.matrixWorldInverse, upper 3x3 by columns: the fixed camera of the
\* scene (no rotation) and a camera turned a quarter about the y axis.
CameraMatrices ==
    {<<<<One, 0, 0>>, <<0, One, 0>>, <<0, 0, One>>>>,
     <<<<0, 0, -One>>, <<0, One, 0>>, <<One, 0, 0>>>>}

\* The intensities passed to setSpecularLight.
UniformIntensities == {Fin(0), Fin(350)}

LightInit ==
    /\ \E od \in {NoVector, <<0, 0, 2 * One>>},
          oi \in Numbers \cup {Undefined}, om \in Numbers \cup {Undefined} :
          LET l == createSpecularLight(od, oi, om)
          IN /\ light = [l EXCEPT !.directionWorld = "lightDir"]
             /\ vectors = [o \in Objects |->
                    CASE o = "lightDir" -> l.directionWorld
                      [] o = "uniformDir" -> Normalize(<<One \div 2, One \div 2, One>>)
                      [] o = "source" -> <<0, 0, One>>
                      [] OTHER -> NoVector]
    /\ uniforms = [uLightDirView |-> "uniformDir", uLightIntensity |-> Fin(0)]
    /\ returned = "none"
    /\ attempted = Undefined
    /\ lightOp = "createSpecularLight"

\* light.directionWorld = directionWorld.normalize(): the caller's object kept.
DirectionSet_Aliased(l, vecs, src) ==
    [light |-> [l EXCEPT !.directionWorld = src],
     vectors |-> [vecs EXCEPT ![src] = Normalize(vecs[src])]]

\* light.directionWorld.copy(directionWorld).normalize()
DirectionSet(l, vecs, src) ==
    [light |-> l,
     vectors |-> [vecs EXCEPT ![l.directionWorld] = Normalize(vecs[src])]]

setSpecularLightDirection(directionWorld) ==
    /\ vectors[directionWorld] # NoVector
    /\ LET r == DirectionSet(light, vectors, directionWorld)
       IN light' = r.light /\ vectors' = r.vectors
    /\ lightOp' = "setSpecularLightDirection"
    /\ UNCHANGED <<attempted, uniforms, returned>>

setSpecularLightIntensity(intensity) ==
    /\ light' = [light EXCEPT !.intensity = ClampedIntensity(light.maxIntensity, intensity)]
    /\ attempted' = intensity
    /\ lightOp' = "setSpecularLightIntensity"
    /\ UNCHANGED <<vectors, uniforms, returned>>

\* Vector3.transformDirection(m): the upper 3x3 of m applied, then normalize().
transformDirection(v, m) == Normalize(MatMul(m, v))

\* getLightDirView(light, camera): a clone of light.directionWorld, transformed.
getLightDirView(matrixWorldInverse) ==
    /\ returned' = "dirView"
    /\ vectors' = [vectors EXCEPT !["dirView"] =
            Normalize(transformDirection(vectors[light.directionWorld],
                                         matrixWorldInverse))]
    /\ lightOp' = "getLightDirView"
    /\ UNCHANGED <<light, attempted, uniforms>>

\* setSpecularLight(mat, lightDirView, intensity)
setSpecularLight(lightDirView, intensity) ==
    /\ vectors[lightDirView] # NoVector
    /\ vectors' = [vectors EXCEPT ![uniforms.uLightDirView] =
            Normalize(vectors[lightDirView])]
    /\ uniforms' = [uniforms EXCEPT !.uLightIntensity = intensity]
    /\ lightOp' = "setSpecularLight"
    /\ UNCHANGED <<light, attempted, returned>>

\* The caller changes a vector of its own in place, as update() does with the
\* controller's direction.
sourceChanges(o, d) ==
    /\ vectors[o] # NoVector
    /\ vectors' = [vectors EXCEPT ![o] = d]
    /\ lightOp' = "sourceChanges"
    /\ UNCHANGED <<light, attempted, uniforms, returned>>

LightNext ==
    \/ \E v \in Numbers :
          setSpecularLightIntensity(v) /\ UNCHANGED <<ctrlVars, shaderVars, sceneVars>>
    \/ setSpecularLightDirection("source") /\ UNCHANGED <<ctrlVars, shaderVars, sceneVars>>
    \/ \E m \in CameraMatrices :
          getLightDirView(m) /\ UNCHANGED <<ctrlVars, shaderVars, sceneVars>>
    \/ \E o \in {"dirView", "source"}, i \in UniformIntensities :
          setSpecularLight(o, i) /\ UNCHANGED <<ctrlVars, shaderVars, sceneVars>>
    \/ \E o \in {"dirView", "source"}, d \in LightDirections :
          sourceChanges(o, d) /\ UNCHANGED <<ctrlVars, shaderVars, sceneVars>>

LightSpecInit == CtrlIdle /\ LightInit /\ ShaderIdle /\ SceneIdle

SpecLight == LightSpecInit /\ [][LightNext]_vars

(***************************************************************************)
(* Specular-only fragment shader (material.ts, fragmentShader)             *)
(*                                                                         *)
(* frag holds what one run of main() reads: the texture samples at vUv,    *)
(* the uniforms and the varyings.  fragOut is what it wrote: discarded, or *)
(* gl_FragColor as rgb and a; specAdd records the scalar of line 161.      *)
(***************************************************************************)
\* GLSL mix(x, y, a) = x * (1 - a) + y * a.
mix(x, y, a) == Mul(x, One - a) + Mul(y, a)

\* A float that is not a number, and the vector normalize() makes of one.
ShaderNaN == -(One * One * One)
NaN3 == <<ShaderNaN, ShaderNaN, ShaderNaN>>
IsNaN3(v) == v[1] = ShaderNaN \/ v[2] = ShaderNaN \/ v[3] = ShaderNaN

\* The two infinite floats.
ShaderInf == 2 * One * One * One
ShaderNegInf == -ShaderInf
IsInf(x) == x = ShaderInf \/ x = ShaderNegInf

\* What GLSL leaves undefined, as the GPU in use settles it.  normalize() of a
\* zero-length vector divides by zero: "zero" returns the zero vector, the
\* others NaN.  clamp() of a NaN returns the lower limit ("nanLow"), the upper
\* limit ("nanHigh"), or the NaN itself ("nan", "nanInf"), which min() then
\* returns too.  pow() of a NaN is NaN, or +Inf ("nanLow", "nanInf").
GpuOutcomes == {"zero", "nan", "nanInf", "nanLow", "nanHigh"}

\* GLSL normalize(v).
normalize(v, gpu) ==
    IF IsNaN3(v) THEN NaN3
    ELSE IF v = <<0, 0, 0>> THEN (IF gpu = "zero" THEN v ELSE NaN3)
    ELSE Normalize(v)

\* float saturate(float x) { return clamp(x, 0.0, 1.0); }
saturate(x, gpu) ==
    IF x = ShaderNaN
    THEN (IF gpu = "nanLow" THEN 0 ELSE IF gpu = "nanHigh" THEN One ELSE ShaderNaN)
    ELSE IF x = ShaderInf THEN One
    ELSE IF x = ShaderNegInf THEN 0
    ELSE clamp(x, 0, One)

\* GLSL min(x, y), y finite.
min(x, y, gpu) ==
    IF x = ShaderNaN THEN (IF gpu \in {"nan", "nanInf"} THEN ShaderNaN ELSE y)
    ELSE IF x = ShaderInf THEN y
    ELSE IF x = ShaderNegInf THEN x
    ELSE MinOf(x, y)

\* The product and the sum of two floats.
fmul(a, b) ==
    IF a = ShaderNaN \/ b = ShaderNaN THEN ShaderNaN
    ELSE IF IsInf(a) \/ IsInf(b)
         THEN (IF a = 0 \/ b = 0 THEN ShaderNaN
               ELSE IF (a > 0) = (b > 0) THEN ShaderInf ELSE ShaderNegInf)
    ELSE Mul(a, b)
fadd(a, b) ==
    IF a = ShaderNaN \/ b = ShaderNaN THEN ShaderNaN
    ELSE IF IsInf(a) THEN (IF IsInf(b) /\ a # b THEN ShaderNaN ELSE a)
    ELSE IF IsInf(b) THEN b
    ELSE a + b

\* dot() of two fixed-point vectors.
dot(a, b) ==
    IF IsNaN3(a) \/ IsNaN3(b) THEN ShaderNaN ELSE RoundDiv(Dot(a, b), One)

RECURSIVE IntPow(_, _)
IntPow(b, n) ==
    IF n = 0 THEN One
    ELSE IF n % 2 = 1 THEN Mul(b, IntPow(b, n - 1))
    ELSE LET h == IntPow(b, n \div 2) IN Mul(h, h)

\* GLSL pow(b, e) for 0 <= b <= 1 and e >= 0: the integer power exactly, the
\* fraction of the exponent interpolated between the neighbouring integer powers.
\* Of a NaN the result is undefined.
pow(b, e, gpu) ==
    LET n == e \div One
        f == e % One
        p == IntPow(b, n)
    IN IF b = ShaderNaN
       THEN (IF gpu \in {"nanLow", "nanInf"} THEN ShaderInf ELSE ShaderNaN)
       ELSE p - Mul(p - Mul(p, b), f)

\* texture2D(map, vUv).r for a sampler uniform whose value is null: no texture
\* is bound, and WebGL samples zero.
UnboundRed == {0}
\* texture2D(uNormalMap, vUv).xyz with no texture bound.
UnboundXYZ == {<<0, 0, 0>>}

\* vTBN * nTS.
TangentToView(m, v) == IF IsNaN3(v) THEN NaN3 ELSE MatMul(m, v)

getSpecularNormal(f, gpu) ==
    LET N == normalize(f.vTBN[3], gpu)
    IN IF f.uNormalScale <= 0 THEN N
       ELSE LET t == <<2 * f.normalSample[1] - One, 2 * f.normalSample[2] - One,
                       2 * f.normalSample[3] - One>>
                nTS == normalize(<<Mul(t[1], f.uNormalScale),
                                   Mul(t[2], f.uNormalScale), t[3]>>, gpu)
            IN normalize(TangentToView(f.vTBN, nTS), gpu)

\* float r = 0.6; r = texture2D(uRoughnessMap, vUv).r; return clamp(r, 0.04, 1.0);
getPerPixelRoughness(f) ==
    LET r0 == 600
        r == f.roughnessSample
    IN clamp(r, 40, One)

Discarded == [ran |-> TRUE, discarded |-> TRUE, rgb |-> <<0, 0, 0>>, a |-> 0,
              specAdd |-> 0]
FragColor(rgb, a, specAdd) ==
    [ran |-> TRUE, discarded |-> FALSE, rgb |-> rgb, a |-> a, specAdd |-> specAdd]

\* Lines 145-157 of main(): the vectors and the two cosines.
ViewDir(f, gpu) ==
    normalize(<<-f.vViewPos[1], -f.vViewPos[2], -f.vViewPos[3]>>, gpu)
LightDir(f, gpu) == normalize(f.uLightDirView, gpu)
HalfVector(f, gpu) ==
    LET L == LightDir(f, gpu)
        V == ViewDir(f, gpu)
    IN IF IsNaN3(L) \/ IsNaN3(V) THEN NaN3
       ELSE normalize(<<L[1] + V[1], L[2] + V[2], L[3] + V[3]>>, gpu)
NoH(f, gpu) == saturate(dot(getSpecularNormal(f, gpu), HalfVector(f, gpu)), gpu)
NoL(f, gpu) == saturate(dot(getSpecularNormal(f, gpu), LightDir(f, gpu)), gpu)

\* float shininess = mix(256.0, 8.0, rough);
\* The interpolation of line 150 with its end points exchanged.
Shininess_Swapped(f) == mix(8 * One, 256 * One, getPerPixelRoughness(f))
Shininess(f) == mix(256 * One, 8 * One, getPerPixelRoughness(f))

\* float alpha = base.a; alpha *= texture2D(uAlphaMap, vUv).r;
CombinedAlpha(f) == Mul(f.base[4], f.alphaSample)

\* if (alpha < uAlphaCutoff): the product itself is compared, not its
\* three-decimal rounding.
BelowCutoff(f) == f.base[4] * f.alphaSample < f.uAlphaCutoff * One

Tinted(f, specAdd) ==
    <<fadd(f.base[1], fmul(f.uSpecularColor[1], specAdd)),
      fadd(f.base[2], fmul(f.uSpecularColor[2], specAdd)),
      fadd(f.base[3], fmul(f.uSpecularColor[3], specAdd))>>

\* float specAdd = spec * uSpecularIntensity * li;
SpecularTerm(f, gpu) ==
    LET spec == fmul(pow(NoH(f, gpu), Shininess(f), gpu), NoL(f, gpu))
    IN fmul(fmul(spec, f.uSpecularIntensity), f.uLightIntensity)

\* Lines 145-165 of main(): the specular term added to the base colour.
Lit(f, gpu) ==
    LET specAdd == min(SpecularTerm(f, gpu), f.uSpecularCap, gpu)
    IN FragColor(Tinted(f, specAdd), CombinedAlpha(f), specAdd)

Baked(f) == FragColor(<<f.base[1], f.base[2], f.base[3]>>, CombinedAlpha(f), 0)

main_NoBakedPath(f, gpu) ==
    IF BelowCutoff(f) THEN Discarded ELSE Lit(f, gpu)

main_LightTestFirst(f, gpu) ==
    IF f.uLightIntensity <= 0 THEN Baked(f)
    ELSE IF BelowCutoff(f) THEN Discarded
    ELSE Lit(f, gpu)

\* void main()
main(f, gpu) ==
    IF BelowCutoff(f) THEN Discarded
    ELSE IF f.uLightIntensity <= 0 THEN Baked(f)
    ELSE Lit(f, gpu)

\* The material parameters and fragment inputs tried.  A map that is not
\* supplied leaves its uniform null (hasAlphaMap, hasRoughnessMap, hasNormalMap
\* false) and its sample is that of an unbound sampler.
BaseSamples == {<<200, 400, 600, 800>>, <<900, 100, 0, One>>, <<500, 500, 500, 999>>}
AlphaSamples == {500, One}
RoughnessSamples == {0, 600, One}
NormalSamples == {<<500, 500, One>>, <<800, 500, 900>>, <<500, 500, 500>>}
AlphaCutoffs == {0, 500}
SpecularColors == {<<One, 500, 0>>}
SpecularIntensities == {150, 40 * One}
SpecularCaps == {20, 120}
NormalScales == {0, One}
\* params.lightDirection, or the lightDirView given to setSpecularLight.
LightDirViews == {<<500, 500, One>>, <<0, 0, One>>, <<0, 0, -One>>, <<0, 0, 0>>}
LightIntensities == {-200, 0, 350}
ViewPositions == {<<0, 0, -3 * One>>, <<One, 0, -2 * One>>, <<0, 0, 0>>}
TangentFrames == {<< <<One, 0, 0>>, <<0, One, 0>>, <<0, 0, One>> >>,
           << <<One, 0, 0>>, <<0, 800, -600>>, <<0, 300, 400>> >>,
           << <<One, 0, 0>>, <<0, One, 0>>, <<0, 0, 0>> >>}

NotRun == [ran |-> FALSE, discarded |-> FALSE, rgb |-> <<0, 0, 0>>, a |-> 0,
           specAdd |-> 0]

\* The uniforms createSpecularOnlyMaterial(params) sets, with one fragment's inputs.
ShaderInit ==
    /\ \E base \in BaseSamples, hasAlphaMap \in BOOLEAN, hasRoughnessMap \in BOOLEAN,
          hasNormalMap \in BOOLEAN, cutoff \in AlphaCutoffs, color \in SpecularColors,
          si \in SpecularIntensities, cap \in SpecularCaps, ns \in NormalScales,
          ld \in LightDirViews, li \in LightIntensities, vp \in ViewPositions,
          tbn \in TangentFrames :
       \E as \in IF hasAlphaMap THEN AlphaSamples ELSE UnboundRed,
          rs \in IF hasRoughnessMap THEN RoughnessSamples ELSE UnboundRed,
          nm \in IF hasNormalMap THEN NormalSamples ELSE UnboundXYZ :
          frag = [base |-> base,
                  hasAlphaMap |-> hasAlphaMap, alphaSample |-> as,
                  hasRoughnessMap |-> hasRoughnessMap, roughnessSample |-> rs,
                  hasNormalMap |-> hasNormalMap, normalSample |-> nm,
                  uAlphaCutoff |-> cutoff, uSpecularColor |-> color,
                  uSpecularIntensity |-> si, uSpecularCap |-> cap,
                  uNormalScale |-> ns, uLightDirView |-> Normalize(ld),
                  uLightIntensity |-> li, vViewPos |-> vp, vTBN |-> tbn]
    /\ fragOut = NotRun

\* The GPU runs main() on the fragment.
Shade ==
    /\ ~fragOut.ran
    /\ \E gpu \in GpuOutcomes : fragOut' = main(frag, gpu)
    /\ UNCHANGED frag

ShaderNext == Shade /\ UNCHANGED <<ctrlVars, lightVars, sceneVars>>

ShaderSpecInit == CtrlIdle /\ LightIdle /\ ShaderInit /\ SceneIdle

SpecShader == ShaderSpecInit /\ [][ShaderNext]_vars

(***************************************************************************)
(* Scene module (scene.ts)                                                 *)
(*                                                                         *)
(* renderer, scene, camera and rafId are the module-level variables; an    *)
(* object is named by the initThreeScene call (session) that created it.   *)
(* scheduled is the host's list of animation-frame callbacks; chain is a   *)
(* history field: the session whose loop() call started the chain of       *)
(* requests the callback belongs to.                                       *)
(***************************************************************************)
Sessions == 1..MaxSessions

\* render(): the calls it makes, given the module-level variables it reads.
render(r, sc, cam, withMesh) ==
    IF r = 0 \/ sc = 0 \/ cam = 0 THEN <<>>
    ELSE <<[call |-> "renderer.render", renderer |-> r, scene |-> sc,
            mesh |-> sc \in withMesh]>>

\* The record kept in sceneLast.
SceneStep(op, session, calls) == [op |-> op, session |-> session, calls |-> calls]

\* State before the first initThreeScene call.
SceneInit ==
    /\ renderer = 0 /\ scene = 0 /\ camera = 0 /\ rafId = 0
    /\ sessions = 0 /\ requests = 0
    /\ scheduled = {}
    /\ loads = [s \in Sessions |-> "none"]
    /\ meshes = {}
    /\ consoleErrors = {}
    /\ cleaned = {}
    /\ sceneLast = SceneStep("none", 0, <<>>)

\* loop(): render(), then rafId = requestAnimationFrame(loop).  waiting is the
\* host's list of callbacks when loop() runs; the calls render() makes are
\* recorded by the step that runs loop().
loop(chain, waiting) ==
    /\ requests < MaxRequests
    /\ requests' = requests + 1
    /\ rafId' = requests'
    /\ scheduled' = waiting \cup {[id |-> requests', chain |-> chain]}

\* initThreeScene(container), up to the return of the cleanup hook.
initThreeScene ==
    /\ sessions < MaxSessions
    /\ sessions' = sessions + 1
    /\ scene' = sessions'
    /\ camera' = sessions'
    /\ renderer' = sessions'
    /\ loads' = [loads EXCEPT ![sessions'] = "loading"]
    /\ loop(sessions', scheduled)
    /\ sceneLast' = SceneStep("initThreeScene", sessions',
                              render(renderer', scene', camera', meshes))
    /\ UNCHANGED <<meshes, consoleErrors, cleaned>>

\* The host runs a scheduled frame callback: loop().
animationFrame(cb) ==
    /\ cb \in scheduled
    /\ loop(cb.chain, scheduled \ {cb})
    /\ sceneLast' = SceneStep("frame", cb.chain,
                              render(renderer, scene, camera, meshes))
    /\ UNCHANGED <<renderer, scene, camera, sessions, loads, meshes,
                   consoleErrors, cleaned>>

\* The onLoad callback of session s: if (!scene) return; scene.add; render().
loadSucceeds(s) ==
    /\ loads[s] = "loading"
    /\ loads' = [loads EXCEPT ![s] = "loaded"]
    /\ meshes' = IF scene = 0 THEN meshes ELSE meshes \cup {scene}
    /\ sceneLast' = SceneStep("onLoad", s,
                              IF scene = 0 THEN <<>>
                              ELSE render(renderer, scene, camera, meshes'))
    /\ UNCHANGED <<renderer, scene, camera, rafId, sessions, requests,
                   scheduled, consoleErrors, cleaned>>

\* The onError callback of session s: console.error.
loadFails(s) ==
    /\ loads[s] = "loading"
    /\ loads' = [loads EXCEPT ![s] = "failed"]
    /\ consoleErrors' = consoleErrors \cup {s}
    /\ sceneLast' = SceneStep("onError", s, <<>>)
    /\ UNCHANGED <<renderer, scene, camera, rafId, sessions, requests,
                   scheduled, meshes, cleaned>>

\* The cleanup hook initThreeScene returned to the caller of session s.
cleanup(s) ==
    /\ s \in 1..sessions
    /\ scheduled' = IF rafId # 0 THEN {cb \in scheduled : cb.id # rafId}
                                 ELSE scheduled
    /\ renderer' = 0
    /\ scene' = 0
    /\ camera' = 0
    /\ rafId' = 0
    /\ cleaned' = cleaned \cup {s}
    /\ sceneLast' = SceneStep("cleanup", s, <<>>)
    /\ UNCHANGED <<sessions, requests, loads, meshes, consoleErrors>>

SceneNext ==
    \/ initThreeScene /\ UNCHANGED <<ctrlVars, lightVars, shaderVars>>
    \/ \E cb \in scheduled :
          animationFrame(cb) /\ UNCHANGED <<ctrlVars, lightVars, shaderVars>>
    \/ \E s \in Sessions :
          loadSucceeds(s) /\ UNCHANGED <<ctrlVars, lightVars, shaderVars>>
    \/ \E s \in Sessions :
          loadFails(s) /\ UNCHANGED <<ctrlVars, lightVars, shaderVars>>
    \/ \E s \in Sessions :
          cleanup(s) /\ UNCHANGED <<ctrlVars, lightVars, shaderVars>>

SceneSpecInit == CtrlIdle /\ LightIdle /\ ShaderIdle /\ SceneInit

SpecScene == SceneSpecInit /\ [][SceneNext]_vars

(***************************************************************************)
(* Properties                                                              *)
(***************************************************************************)
\* normalize(x, y, 1) of the latest normalized pointer position.
PointerDirection == Normalize(<<pointerXY[1], pointerXY[2], One>>)

\* Unit length within the tolerance of the fixed-point grain.
UnitTolerance == 4 * One
IsUnit(v) == Abs(Dot(v, v) - One * One) <= UnitTolerance

Live == ~disposed

\* C1 (SpecLight): for every light built by createSpecularLight and after any
\* sequence of setSpecularLightIntensity calls, 0 <= intensity <= maxIntensity.
\* Fails on the code: Math.max(0, NaN) is NaN, so a NaN maxIntensity option
\* makes every stored intensity NaN.
C1_IntensityInRange ==
    Leq(Fin(0), light.intensity) /\ Leq(light.intensity, light.maxIntensity)

\* C2 (Spec): once the controller is disposed, the answer to a permission
\* request that was still pending changes none of deviceOrientationEnabled,
\* direction and targetDirection.  Fails on the code: the continuation of the
\* await sets deviceOrientationEnabled without looking at disposed.
C2_InertAfterDispose ==
    [][(/\ disposed
        /\ \/ last'.op = "permission" /\ last'.answer \in HostAnswers
           \/ last'.op = "catch" /\ needsPermission) =>
          /\ deviceOrientationEnabled' = deviceOrientationEnabled
          /\ direction' = direction
          /\ targetDirection' = targetDirection]_vars

\* The pointer part of C3: a pointer-move event received by the live controller
\* in pointer mode sets targetDirection to normalize(x, y, 1).
PointerMoveSetsTarget ==
    (last.op = "pointermove" /\ Live /\ ~deviceOrientationEnabled)
        => targetDirection = PointerDirection

DeniedJustNow == last.op = "permission" /\ last.answer \in {"denied", "failed"}

\* C3 as stated (Spec): when the host denies an enable request (or the request
\* fails) the call is rejected, deviceOrientationEnabled is false afterwards and
\* was never true since the call was made, and pointer moves keep setting the
\* target.
C3_DeniedStaysPointerMode ==
    /\ DeniedJustNow =>
          /\ last.outcome = "rejected"
          /\ ~deviceOrientationEnabled
          /\ ~last.sawEnabled
    /\ PointerMoveSetsTarget

\* C3 amended (Spec): when the host denies an enable request (or the request
\* fails) the call is rejected; unless another enable request was granted while
\* it was pending, deviceOrientationEnabled is false afterwards and was never
\* true in between; and pointer moves keep setting the target.
C3_DeniedStaysPointerModeUnlessOtherGranted ==
    /\ DeniedJustNow =>
          /\ last.outcome = "rejected"
          /\ ~last.sawEnabled => ~deviceOrientationEnabled
    /\ PointerMoveSetsTarget

\* C3 witness: a denied startup request and a denied explicit request exist, here
\* an explicit one denied with the mode never enabled meanwhile.
C3_Witness ==
    /\ DeniedJustNow /\ last.kind = "explicit" /\ last.answer = "denied"
    /\ ~last.sawEnabled /\ Live /\ pointerXY # <<0, 0>>

\* C4 (Spec): while orientation mode is enabled and no valid sample has arrived,
\* after each pointer move and each update() of the live controller
\* targetDirection is normalize(x, y, 1) of the latest pointer position.  Fails
\* on the code: onPointerMove and update() recompute only when the mode is off.
C4_PointerDrivesUntilFirstSample ==
    (/\ last.op \in {"pointermove", "update"}
     /\ Live /\ deviceOrientationEnabled /\ ~orientation.hasSample)
        => targetDirection = PointerDirection

\* C5 (SpecShader): a fragment that is kept, at light intensity <= 0, comes out
\* as exactly (base.rgb, combined alpha), whatever the other inputs are.
C5_BakedOnlyAtZeroLight ==
    (fragOut.ran /\ ~fragOut.discarded /\ frag.uLightIntensity <= 0)
        => /\ fragOut.rgb = <<frag.base[1], frag.base[2], frag.base[3]>>
           /\ fragOut.a = Mul(frag.base[4], frag.alphaSample)

\* C5 witness: a kept fragment at negative light intensity whose specular term
\* would not be zero (normal map, light straight on).
C5_Witness ==
    /\ fragOut.ran /\ ~fragOut.discarded /\ frag.uLightIntensity < 0
    /\ frag.hasNormalMap /\ frag.uNormalScale > 0
    /\ \E gpu \in GpuOutcomes :
          LET specAdd == Lit(frag, gpu).specAdd
          IN specAdd # ShaderNaN /\ ~IsInf(specAdd) /\ specAdd < 0

\* C6 (Spec): after every update() of a live controller direction is a unit
\* vector, never the zero vector; targetDirection is always a unit vector.
C6_UnitDirections ==
    /\ (last.op = "update" /\ Live) =>
          IsUnit(direction) /\ direction # <<0, 0, 0>>
    /\ IsUnit(targetDirection)

\* C6 witness: an interpolated direction between two different targets.
C6_Witness ==
    /\ last.op = "update" /\ Live /\ Interpolating /\ frames = MaxFrames
    /\ direction # targetDirection /\ direction # <<0, 0, One>>
    /\ deviceOrientationEnabled /\ orientation.hasSample

\* C7 as stated (Spec): with smoothing 0, after an update() call direction
\* equals targetDirection.
C7_SnapsToTarget ==
    (last.op = "update" /\ smoothing = 0) => direction = targetDirection

\* C7 amended (Spec): with smoothing 0, after an update() call on a controller
\* that is not disposed, direction equals targetDirection, in either mode.
C7_SnapsToTargetWhenLive ==
    (last.op = "update" /\ smoothing = 0 /\ Live) => direction = targetDirection

\* C7 witness: orientation mode, a target from a tilt sample, snapped to.
C7_Witness ==
    /\ last.op = "update" /\ smoothing = 0 /\ Live
    /\ deviceOrientationEnabled /\ orientation.hasSample
    /\ direction # <<0, 0, One>> /\ direction # PointerDirection

\* C8 (SpecShader): a fragment is discarded exactly when base alpha times the
\* alpha-map sample is below alphaCutoff, at any light intensity; a kept
\* fragment outputs that combined alpha.
C8_DiscardBelowCutoff ==
    fragOut.ran =>
        /\ fragOut.discarded <=>
              frag.base[4] * frag.alphaSample < frag.uAlphaCutoff * One
        /\ ~fragOut.discarded => fragOut.a = Mul(frag.base[4], frag.alphaSample)

\* C8 witness: base alpha 0.8, mask 0.5, cutoff 0.5, discarded at zero light.
C8_Witness ==
    /\ fragOut.ran /\ fragOut.discarded
    /\ frag.base[4] = 800 /\ frag.alphaSample = 500 /\ frag.uAlphaCutoff = 500
    /\ frag.hasAlphaMap /\ frag.uLightIntensity = 0

\* C9 (SpecShader): with no alpha map the combined alpha is the base alpha
\* (mask 1), and with no roughness map the roughness used is 0.6.  Fails on the
\* code: both samplers are read unconditionally, and an unbound sampler reads 0.
C9_NeutralDefaults ==
    fragOut.ran =>
        /\ ~frag.hasAlphaMap =>
              /\ fragOut.discarded <=> frag.base[4] < frag.uAlphaCutoff
              /\ ~fragOut.discarded => fragOut.a = frag.base[4]
        /\ ~frag.hasRoughnessMap => getPerPixelRoughness(frag) = 600

\* C10 (SpecShader): at light intensity > 0 the specular scalar added is at most
\* specularCap and the output RGB is
\* base.rgb + specularColor * min(NoH^shininess * NoL * specularIntensity * lightIntensity, specularCap).
\* Fails on the code: with a zero-length light direction, view position,
\* half vector or normal, normalize() is undefined, and on a GPU that carries
\* the NaN through clamp() and min() the scalar and the colour are NaN.
C10_SpecularCapped ==
    (fragOut.ran /\ ~fragOut.discarded /\ frag.uLightIntensity > 0) =>
        /\ fragOut.specAdd # ShaderNaN
        /\ fragOut.specAdd <= frag.uSpecularCap
        /\ \E gpu \in GpuOutcomes :
              LET term == SpecularTerm(frag, gpu)
                  capped == IF term < frag.uSpecularCap THEN term
                            ELSE frag.uSpecularCap
              IN /\ term # ShaderNaN
                 /\ \A i \in 1..3 :
                       fragOut.rgb[i]
                           = frag.base[i] + Mul(frag.uSpecularColor[i], capped)
        /\ \A i \in 1..3 :
              fragOut.rgb[i] - frag.base[i]
                  <= MaxOf(0, Mul(frag.uSpecularColor[i], frag.uSpecularCap))

\* A fragment that took the lit path of main(): shininess was computed.
LitFragment == fragOut.ran /\ ~fragOut.discarded /\ frag.uLightIntensity > 0

\* Two values agree to one decimal place.
Approx(x, y) == Abs(x - y) <= One \div 10

\* The same fragment with another roughness sample.
WithRoughness(r) == [frag EXCEPT !.roughnessSample = r]

\* Shininess does not increase when the roughness sample increases.
ShininessNonIncreasing ==
    \A r \in RoughnessSamples :
        r >= frag.roughnessSample =>
            Shininess(WithRoughness(r)) <= Shininess(frag)

\* C11 as stated: shininess is mix(256, 8, roughness) with roughness clamped
\* to [0.04, 1.0]; roughness 0.04 gives about 246.2, roughness 1.0 gives 8,
\* roughness 0.6 gives about 102.4; shininess never increases with roughness.
C11_ShininessValues ==
    LitFragment =>
        LET rough == getPerPixelRoughness(frag)
            s == Shininess(frag)
        IN /\ rough >= 40 /\ rough <= One
           /\ (rough = 40 => Approx(s, 246200))
           /\ (rough = One => s = 8 * One)
           /\ (rough = 600 => Approx(s, 102400))
           /\ ShininessNonIncreasing

\* C11 amended: shininess is 256 - 248 * roughness with roughness clamped to
\* [0.04, 1.0]; roughness 0.04 gives 246.08, roughness 1.0 gives 8, roughness
\* 0.6 gives 107.2; shininess never increases with roughness.
C11_ShininessIsMix ==
    LitFragment =>
        LET rough == getPerPixelRoughness(frag)
            s == Shininess(frag)
        IN /\ rough >= 40 /\ rough <= One
           /\ s = 256 * One - RoundDiv(248 * One * rough, One)
           /\ (rough = 40 => s = 246080)
           /\ (rough = One => s = 8 * One)
           /\ (rough = 600 => s = 107200)
           /\ ShininessNonIncreasing

C11_Witness ==
    /\ LitFragment
    /\ frag.hasRoughnessMap
    /\ frag.roughnessSample = 600
    /\ Shininess(frag) = 107200

\* The pointer position the claim computes from a pointer event
\* <<cx, cy, w, h>> in a viewport of positive size.
ClaimedPointerXY(a) ==
    <<clamp(RoundDiv(2 * a[1] * One, a[3]) - One, -One, One),
      clamp(-(RoundDiv(2 * a[2] * One, a[4]) - One), -One, One)>>

InUnitRange(c) == -One <= c /\ c <= One

\* C12 (Spec): a pointer-move event at (cx, cy) received in pointer mode, in a
\* viewport of width w and height h, sets pointerXY to
\* (clamp(2*cx/w - 1, -1, 1), clamp(-(2*cy/h - 1), -1, 1)) and targetDirection
\* to normalize(x, y, 1); the centre gives (0, 0, 1), the top-right corner
\* normalize(1, 1, 1); both pointerXY components always stay in [-1, 1].
C12_PointerMapping ==
    /\ InUnitRange(pointerXY[1]) /\ InUnitRange(pointerXY[2])
    /\ (/\ last.op = "pointermove" /\ Live /\ ~deviceOrientationEnabled
        /\ last.arg[3] > 0 /\ last.arg[4] > 0)
          => /\ pointerXY = ClaimedPointerXY(last.arg)
             /\ targetDirection = Normalize(<<pointerXY[1], pointerXY[2], One>>)
             /\ (2 * last.arg[1] = last.arg[3] /\ 2 * last.arg[2] = last.arg[4])
                   => targetDirection = <<0, 0, One>>
             /\ (last.arg[1] = last.arg[3] /\ last.arg[2] = 0)
                   => targetDirection = Normalize(<<One, One, One>>)

\* C12 witness: the pointer moved to the top-right corner in pointer mode.
C12_Witness ==
    /\ last.op = "pointermove" /\ Live /\ ~deviceOrientationEnabled
    /\ last.arg = <<100, 0, 100, 100>>
    /\ pointerXY = <<One, One>>
    /\ targetDirection = Normalize(<<One, One, One>>)

\* C13 as stated (Spec): a setDeviceOrientationEnabled(false) call made in
\* enabled orientation mode leaves deviceOrientationEnabled false and
\* targetDirection at normalize(px, py, 1) of the last pointer position; an
\* orientation sample arriving in pointer mode does not change targetDirection.
C13_DisableFallsBackToPointer ==
    [][/\ (/\ deviceOrientationEnabled
           /\ last'.op = "setEnabled" /\ last'.arg = <<FALSE>>)
             => /\ ~deviceOrientationEnabled'
                /\ targetDirection' =
                      Normalize(<<pointerXY'[1], pointerXY'[2], One>>)
       /\ (~deviceOrientationEnabled /\ last'.op = "deviceorientation")
             => targetDirection' = targetDirection]_vars

\* C13 amended (Spec): the same for a controller that is not disposed.
C13_DisableFallsBackToPointerWhenLive ==
    [][/\ (/\ deviceOrientationEnabled /\ Live
           /\ last'.op = "setEnabled" /\ last'.arg = <<FALSE>>)
             => /\ ~deviceOrientationEnabled'
                /\ targetDirection' =
                      Normalize(<<pointerXY'[1], pointerXY'[2], One>>)
       /\ (~deviceOrientationEnabled /\ last'.op = "deviceorientation")
             => targetDirection' = targetDirection]_vars

\* C13 witness: orientation mode was switched off after a sample had driven
\* the target and the pointer had moved; the target is the pointer's again.
C13_Witness ==
    /\ last.op = "setEnabled" /\ last.arg = <<FALSE>> /\ Live
    /\ ~deviceOrientationEnabled
    /\ orientation.hasSample
    /\ pointerXY = <<One, One>>
    /\ targetDirection = PointerDirection
    /\ targetDirection #
          RecomputedTarget(FALSE, TRUE, orientation, pointerXY, maxTiltDeg,
                           targetDirection)

\* C14 (Spec): after dispose(), with no permission request in flight, no
\* update() call, pointer-move event, orientation event or
\* setDeviceOrientationEnabled call changes direction, targetDirection or
\* deviceOrientationEnabled, and both event subscriptions are released.
C14_InertWhenDisposed ==
    [][(disposed /\ pending = <<>>)
          => /\ direction' = direction
             /\ targetDirection' = targetDirection
             /\ deviceOrientationEnabled' = deviceOrientationEnabled
             /\ listeners = {} /\ listeners' = {}]_vars

\* C14 witness: update() ran on a disposed controller whose direction had not
\* reached its target, in orientation mode, and left it there.
C14_Witness ==
    /\ disposed /\ pending = <<>>
    /\ last.op = "update"
    /\ deviceOrientationEnabled
    /\ direction # targetDirection

\* C19 (Spec): when setDeviceOrientationEnabled(false) has just been called
\* while a setDeviceOrientationEnabled(true) call waits for permission, and
\* that call then resolves, deviceOrientationEnabled is false and
\* targetDirection follows the pointer.  Fails on the code: the false call
\* returns at the guard of line 125 and the continuation of the await sets
\* the mode to true.
C19_ModeFollowsLatestRequest ==
    [][(/\ last.op = "setEnabled" /\ last.arg = <<FALSE>> /\ pending # <<>>
        /\ last'.op = "permission" /\ last'.outcome = "resolved")
          => /\ ~deviceOrientationEnabled'
             /\ targetDirection' =
                    Normalize(<<pointerXY'[1], pointerXY'[2], One>>)]_vars

\* C20 (Spec): once orientation mode is on for a live controller, it stays on
\* until a setDeviceOrientationEnabled(false) call; the failure of another
\* pending enable request does not switch it off.  Fails on the code: the
\* catch block of the startup request sets the mode to false.
C20_GrantedModeStays ==
    [][(/\ deviceOrientationEnabled /\ Live
        /\ ~(last'.op = "setEnabled" /\ last'.arg = <<FALSE>>))
          => deviceOrientationEnabled']_vars

\* C16 (SpecLight): after setSpecularLightIntensity(light, v), a v above
\* maxIntensity, +Infinity included, reads back as maxIntensity, and a v below
\* 0, -Infinity included, reads back as 0.  Fails on the code: a non-finite v
\* is replaced by 0 before the clamp, so +Infinity reads back as 0.
C16_NearestValidValue ==
    attempted # Undefined
        => /\ Lt(light.maxIntensity, attempted) => light.intensity = light.maxIntensity
           /\ Lt(attempted, Fin(0)) => light.intensity = Fin(0)

\* The vectors the caller owns: the one it passes to the two set functions and
\* the one getLightDirView handed to it.
CallerVectors == {"source", "dirView"}

\* C18 (SpecLight): getLightDirView returns a new vector and leaves
\* light.directionWorld, light.intensity and light.maxIntensity as they were;
\* setSpecularLightDirection and setSpecularLight copy the vector they are
\* given, so that the light and the uniform keep vectors of their own, the
\* given vector is not changed, and a later change of the caller's vector
\* changes neither the light direction nor the uniform.
C18_NoAliasing ==
    [][/\ lightOp' = "getLightDirView" =>
             /\ light' = light
             /\ vectors'[light.directionWorld] = vectors[light.directionWorld]
             /\ returned' \notin {light.directionWorld, uniforms.uLightDirView, "source"}
       /\ lightOp' \in {"setSpecularLightDirection", "setSpecularLight"} =>
             /\ light'.directionWorld \notin CallerVectors
             /\ uniforms'.uLightDirView \notin CallerVectors
             /\ \A o \in CallerVectors : vectors'[o] = vectors[o]
       /\ lightOp' = "sourceChanges" =>
             /\ light' = light /\ uniforms' = uniforms
             /\ vectors'[light.directionWorld] = vectors[light.directionWorld]
             /\ vectors'[uniforms.uLightDirView] = vectors[uniforms.uLightDirView]]_vars

\* C18 witness: the light direction and the uniform were set from the caller's
\* vectors, and the caller's vector has changed since: the light direction is
\* still the one that was set.
C18_Witness ==
    /\ lightOp = "sourceChanges"
    /\ returned = "dirView"
    /\ vectors["source"] = <<-One, 0, One \div 2>>
    /\ vectors[light.directionWorld] = Normalize(<<One, One, One>>)
    /\ vectors[uniforms.uLightDirView] # Normalize(<<One \div 2, One \div 2, One>>)
    /\ vectors[uniforms.uLightDirView] # Normalize(vectors["source"])

\* The calls of the step that ran last contain a, b and c in this order.
InOrder(calls, a, b, c) ==
    \E i, j, k \in 1..Len(calls) :
        /\ i < j /\ j < k
        /\ calls[i].call = a /\ calls[j].call = b /\ calls[k].call = c

\* C15 (SpecScene): every frame of the render loop calls the controller's
\* update(), then setSpecularLight, then renderer.render.  Fails on the code:
\* loop() calls render() and nothing else.
C15_FrameOrder ==
    sceneLast.op = "frame"
        => InOrder(sceneLast.calls, "update", "setSpecularLight", "renderer.render")

\* C17 (SpecScene): when the mesh load of a session has failed, the failure
\* was logged, and until the session's cleanup hook is called every frame of
\* the loop the session started issues a render, of a scene without the mesh,
\* and requests the next frame.  Fails on the code when a second session
\* exists: the loop reads the module-level renderer, scene and camera, which
\* the cleanup hook of the other session clears.
C17_RendersAfterLoadFailure ==
    \A s \in Sessions :
        loads[s] = "failed" =>
            /\ s \in consoleErrors
            /\ (sceneLast.op = "frame" /\ sceneLast.session = s /\ s \notin cleaned)
                  => /\ Len(sceneLast.calls) = 1
                     /\ sceneLast.calls[1].call = "renderer.render"
                     /\ ~sceneLast.calls[1].mesh
                     /\ \E cb \in scheduled : cb.chain = s

\* C21 (Spec): when orientation mode is switched on again on a live
\* controller that holds an orientation sample from an earlier enabled period
\* (the mode is off and hasSample is true), targetDirection is the
\* pointer-derived direction, not one computed from that sample.  Fails on the
\* code: hasSample is never reset, so the recomputeTarget() of line 131 reads
\* the old sample.
C21_NoStaleSample ==
    [][(/\ ~deviceOrientationEnabled /\ orientation.hasSample /\ Live
        /\ last'.op = "permission" /\ last'.outcome = "resolved")
          => targetDirection' =
                Normalize(<<pointerXY'[1], pointerXY'[2], One>>)]_vars

\* The step that ran last was a frame or a load completion of session s and
\* it issued a render, or it issued a render with the renderer of session s.
RenderedFor(s) ==
    \/ /\ sceneLast.op \in {"frame", "onLoad"}
       /\ sceneLast.session = s
       /\ sceneLast.calls # <<>>
    \/ \E i \in 1..Len(sceneLast.calls) : sceneLast.calls[i].renderer = s

\* C22 (SpecScene): once the cleanup hook of a session has returned, no
\* render is issued for that session, by a frame or by a load completion, and
\* none of its frame callbacks is scheduled; and a session that was
\* initialised and not cleaned up keeps a frame callback scheduled and renders
\* in each of its frames.  Fails on the code: renderer, scene, camera and
\* rafId are module-level variables shared by all sessions.
C22_SessionsIndependent ==
    \A s \in 1..sessions :
        IF s \in cleaned
        THEN /\ ~RenderedFor(s)
             /\ ~\E cb \in scheduled : cb.chain = s
        ELSE /\ \E cb \in scheduled : cb.chain = s
             /\ (sceneLast.op = "frame" /\ sceneLast.session = s)
                   => sceneLast.calls # <<>>
====
